---- MODULE Spec2Model ----
(***************************************************************************)
(* A model of snake_gui (src/src/main.rs): a Bevy application with four    *)
(* Startup systems and two Update systems, snake_movement_system and       *)
(* render_system, that share one Snake entity, one Food entity and one     *)
(* Text entity.                                                            *)
(***************************************************************************)
EXTENDS Integers, Sequences, FiniteSets, TLC

(***************************************************************************)
(* Bounds of the model.                                                    *)
(***************************************************************************)
\* FieldSize.size ranges over 1..MaxFieldSize (main inserts 30; the systems
\* read it as a parameter, so the model covers the small sizes of both
\* parities, the degenerate size 1 included).
MaxFieldSize == 3
\* Number of Update frames explored.
MaxFrames == 3
\* Largest number of distinct movement keys pressed within one frame.
MaxPressed == 2

(***************************************************************************)
(* Key codes.  Comma is the value initialize_snake stores as "no direction *)
(* yet"; the four movement keys are W (up), S (down), A (left), D (right). *)
(***************************************************************************)
MoveKeys == {"KeyW", "KeyS", "KeyA", "KeyD"}
KeyCodes == MoveKeys \cup {"Comma", "Space"}

\* A variant that tests A before S.
KeyOrder_swapped == <<"KeyW", "KeyA", "KeyS", "KeyD">>

\* The order in which snake_movement_system tests the keys.
KeyOrder == <<"KeyW", "KeyS", "KeyA", "KeyD">>

Systems == {"snake_movement_system", "render_system"}

VARIABLES
    field,      \* the FieldSize resource: [size |-> i32]
    pc,         \* "draw"/"test": inside the loop of initialize_food;
                \* "input": between frames; "systems": the Update schedule runs
    random_x,   \* initialize_food: the last draw
    random_y,
    food,       \* the set of Food components spawned
    snake,      \* the Snake component: [position, length, direction]
    text,       \* the Text component: a sequence of characters
    pressed,    \* the keys that became pressed in this frame, in press order
    ran,        \* the Update systems that have run in this frame
    frame       \* number of frames started

vars == <<field, pc, random_x, random_y, food, snake, text, pressed, ran, frame>>

Position(px, py) == [x |-> px, y |-> py]

Range(s) == {s[i] : i \in DOMAIN s}

\* ButtonInput::just_pressed: membership in the set of keys pressed this frame;
\* the order of the presses is not kept.
just_pressed(key) == key \in Range(pressed)

\* The inputs of a frame: sequences of distinct movement keys.
PressedSeqs ==
    {s \in UNION {[1..n -> MoveKeys] : n \in 0..MaxPressed} :
        \A i, j \in DOMAIN s : i # j => s[i] # s[j]}

(***************************************************************************)
(* initialize_snake, setup_ui, main: the state when the Startup commands   *)
(* of initialize_snake and setup_ui are applied and initialize_food enters *)
(* its loop.                                                               *)
(***************************************************************************)
initialize_snake ==
    [position |-> <<Position(0, 0)>>, length |-> 1, direction |-> "Comma"]

Init ==
    /\ field \in {[size |-> n] : n \in 1..MaxFieldSize}
    /\ pc = "draw"
    /\ random_x = 0
    /\ random_y = 0
    /\ food = {}
    /\ snake = initialize_snake
    /\ text = <<>>
    /\ pressed = <<>>
    /\ ran = {}
    /\ frame = 0

(***************************************************************************)
(* initialize_food                                                         *)
(***************************************************************************)
\* i32 division of a positive size by 2.
half_size == field.size \div 2

\* A variant that takes the range as inclusive.
random_range_inclusive(lo, hi) == lo..hi

\* rng.random_range(-half_size..half_size + 1): the half-open range.
random_range(lo, hi) == {n \in lo..hi : n < hi}

\* The test that ends the loop.
AcceptDraw(rx, ry) == rx # 0 \/ ry # 0

\* One iteration draws both coordinates...
InitializeFoodDraw ==
    /\ pc = "draw"
    /\ \E rx \in random_range(-half_size, half_size + 1) :
       \E ry \in random_range(-half_size, half_size + 1) :
          /\ random_x' = rx
          /\ random_y' = ry
    /\ pc' = "test"
    /\ UNCHANGED <<field, food, snake, text, pressed, ran, frame>>

\* ... and spawns the food and breaks, or loops.
InitializeFoodTest ==
    /\ pc = "test"
    /\ IF AcceptDraw(random_x, random_y)
       THEN /\ food' = food \cup {[position |-> Position(random_x, random_y)]}
            /\ pc' = "input"
       ELSE /\ food' = food
            /\ pc' = "draw"
    /\ UNCHANGED <<field, random_x, random_y, snake, text, pressed, ran, frame>>

(***************************************************************************)
(* The host: a frame starts with the keyboard input of the frame.          *)
(***************************************************************************)
BeginFrame ==
    /\ pc = "input"
    /\ frame < MaxFrames
    /\ pressed' \in PressedSeqs
    /\ ran' = {}
    /\ frame' = frame + 1
    /\ pc' = "systems"
    /\ UNCHANGED <<field, random_x, random_y, food, snake, text>>

\* main adds the two Update systems with no ordering between them: the
\* schedule runs each once per frame, in either order.
SystemDone(s) ==
    /\ ran' = ran \cup {s}
    /\ pc' = IF ran \cup {s} = Systems THEN "input" ELSE "systems"

(***************************************************************************)
(* direction_check                                                         *)
(***************************************************************************)
\* A variant that misses the (D, A) arm.
direction_check_missing_arm(previous_direction, new_direction) ==
    CASE previous_direction = "KeyW" /\ new_direction = "KeyS" -> FALSE
      [] previous_direction = "KeyS" /\ new_direction = "KeyW" -> FALSE
      [] previous_direction = "KeyA" /\ new_direction = "KeyD" -> FALSE
      [] OTHER -> TRUE

direction_check(previous_direction, new_direction) ==
    CASE previous_direction = "KeyW" /\ new_direction = "KeyS" -> FALSE
      [] previous_direction = "KeyS" /\ new_direction = "KeyW" -> FALSE
      [] previous_direction = "KeyA" /\ new_direction = "KeyD" -> FALSE
      [] previous_direction = "KeyD" /\ new_direction = "KeyA" -> FALSE
      [] OTHER -> TRUE

(***************************************************************************)
(* snake_movement_system                                                   *)
(***************************************************************************)
\* A variant that takes the key without asking direction_check.
KeyBlock_unchecked(direction, key) ==
    IF key \in Range(pressed) THEN key ELSE direction

\* One of the four "if keyboard_input.just_pressed(key)" blocks.
KeyBlock(direction, key) ==
    IF just_pressed(key) /\ direction_check(direction, key)
    THEN key
    ELSE direction

\* The four blocks in source order, each reading the direction the previous
\* ones left.
RECURSIVE KeyBlocks(_, _)
KeyBlocks(direction, i) ==
    IF i > Len(KeyOrder)
    THEN direction
    ELSE KeyBlocks(KeyBlock(direction, KeyOrder[i]), i + 1)

UpdatedDirection(direction) == KeyBlocks(direction, 1)

\* A variant with the vertical offsets exchanged.
NewHead_flipped(head, direction) ==
    CASE direction = "KeyW" -> [x |-> head.x, y |-> head.y - 1]
      [] direction = "KeyS" -> [x |-> head.x, y |-> head.y + 1]
      [] direction = "KeyA" -> [x |-> head.x - 1, y |-> head.y]
      [] direction = "KeyD" -> [x |-> head.x + 1, y |-> head.y]
      [] OTHER -> [x |-> head.x, y |-> head.y]

\* A variant whose default arm moves up.
NewHead_default_moves(head, direction) ==
    CASE direction = "KeyS" -> [x |-> head.x, y |-> head.y - 1]
      [] direction = "KeyA" -> [x |-> head.x - 1, y |-> head.y]
      [] direction = "KeyD" -> [x |-> head.x + 1, y |-> head.y]
      [] OTHER -> [x |-> head.x, y |-> head.y + 1]

\* A variant that misses the KeyD arm.
NewHead_missing_arm(head, direction) ==
    CASE direction = "KeyW" -> [x |-> head.x, y |-> head.y + 1]
      [] direction = "KeyS" -> [x |-> head.x, y |-> head.y - 1]
      [] direction = "KeyA" -> [x |-> head.x - 1, y |-> head.y]
      [] OTHER -> [x |-> head.x, y |-> head.y]

\* match snake.direction { ... }
NewHead(head, direction) ==
    CASE direction = "KeyW" -> Position(head.x, head.y + 1)
      [] direction = "KeyS" -> Position(head.x, head.y - 1)
      [] direction = "KeyA" -> Position(head.x - 1, head.y)
      [] direction = "KeyD" -> Position(head.x + 1, head.y)
      [] OTHER -> Position(head.x, head.y)

\* snake.position.insert(0, new_head)
Insert0(position, new_head) == <<new_head>> \o position

\* A variant that never removes the tail.
PopTail_never(position, length) == position

\* if snake.position.len() > snake.length as usize { snake.position.pop(); }
PopTail(position, length) ==
    IF Len(position) > length
    THEN SubSeq(position, 1, Len(position) - 1)
    ELSE position

\* A variant that raises the target length when the new head is on a food.
Moved_grows(s) ==
    LET direction == UpdatedDirection(s.direction)
        new_head == NewHead(s.position[1], direction)
        length == IF \E f \in food : f.position = new_head
                  THEN s.length + 1
                  ELSE s.length
    IN  [position |-> PopTail(Insert0(s.position, new_head), length),
         length |-> length,
         direction |-> direction]

Moved(s) ==
    LET direction == UpdatedDirection(s.direction)
        new_head == NewHead(s.position[1], direction)
    IN  [position |-> PopTail(Insert0(s.position, new_head), s.length),
         length |-> s.length,
         direction |-> direction]

SnakeMovementSystem ==
    /\ pc = "systems"
    /\ "snake_movement_system" \notin ran
    /\ snake' = Moved(snake)
    /\ SystemDone("snake_movement_system")
    /\ UNCHANGED <<field, random_x, random_y, food, text, pressed, frame>>

(***************************************************************************)
(* render_system                                                           *)
(***************************************************************************)
\* An i32 cast "as usize": a negative value wraps to the top of the usize
\* range.  The modulus stands for 2^64, which is beyond TLC's integers; any
\* modulus above every size and coordinate gives the same comparisons.
UsizeModulus == 2 ^ 30
\* A variant that takes the magnitude of a negative value.
AsUsize_magnitude(n) == IF n < 0 THEN -n ELSE n

AsUsize(n) == n % UsizeModulus

\* vec![vec![' '; size]; size], indexed grid[y][x] from 0.
EmptyGrid(size) == [gy \in 0..(size - 1) |-> [gx \in 0..(size - 1) |-> " "]]

\* A variant that clamps the projected cell into the grid.
Mark_clamped(grid, size, pos, glyph) ==
    LET half == field.size \div 2
        gx == IF pos.x + half < 0 THEN 0
              ELSE IF pos.x + half >= size THEN size - 1 ELSE pos.x + half
        gy == IF pos.y + half < 0 THEN 0
              ELSE IF pos.y + half >= size THEN size - 1 ELSE pos.y + half
    IN  [grid EXCEPT ![gy][gx] = glyph]

\* One "if x < size && y < size { grid[y][x] = glyph }".
Mark(grid, size, pos, glyph) ==
    LET half == field.size \div 2
        gx == AsUsize(pos.x + half)
        gy == AsUsize(pos.y + half)
    IN  IF gx < size /\ gy < size
        THEN [grid EXCEPT ![gy][gx] = glyph]
        ELSE grid

\* for pos in &snake.position
RECURSIVE MarkSnake(_, _, _, _)
MarkSnake(grid, size, position, i) ==
    IF i > Len(position)
    THEN grid
    ELSE MarkSnake(Mark(grid, size, position[i], "~"), size, position, i + 1)

\* for food in food_query.iter()
RECURSIVE MarkFood(_, _, _)
MarkFood(grid, size, foods) ==
    IF foods = {}
    THEN grid
    ELSE LET f == CHOOSE g \in foods : TRUE
         IN  MarkFood(Mark(grid, size, f.position, "*"), size, foods \ {f})

\* A variant that does not end the row with a newline.
RECURSIVE RowString_unterminated(_, _, _)
RowString_unterminated(row, size, gx) ==
    IF gx >= size
    THEN <<>>
    ELSE <<row[gx]>> \o RowString_unterminated(row, size, gx + 1)

\* for cell in row { push(*cell) }; push('\n')
RECURSIVE RowString(_, _, _)
RowString(row, size, gx) ==
    IF gx >= size
    THEN <<"\n">>
    ELSE <<row[gx]>> \o RowString(row, size, gx + 1)

\* for row in grid.iter().rev(): the rows from index size-1 down to 0.
RECURSIVE GridString(_, _, _)
GridString(grid, size, k) ==
    IF k >= size
    THEN <<>>
    ELSE RowString(grid[size - 1 - k], size, 0) \o GridString(grid, size, k + 1)

\* A variant that marks the food before the snake.
Render_food_first(s, foods) ==
    LET size == AsUsize(field.size)
        grid == MarkSnake(MarkFood(EmptyGrid(size), size, foods), size, s.position, 1)
    IN  GridString(grid, size, 0)

Render(s, foods) ==
    LET size == AsUsize(field.size)
        grid == MarkFood(MarkSnake(EmptyGrid(size), size, s.position, 1), size, foods)
    IN  GridString(grid, size, 0)

RenderSystem ==
    /\ pc = "systems"
    /\ "render_system" \notin ran
    /\ text' = Render(snake, food)
    /\ SystemDone("render_system")
    /\ UNCHANGED <<field, random_x, random_y, food, snake, pressed, frame>>

(***************************************************************************)
(* Specifications                                                          *)
(***************************************************************************)
Next ==
    \/ InitializeFoodDraw
    \/ InitializeFoodTest
    \/ BeginFrame
    \/ SnakeMovementSystem
    \/ RenderSystem

Spec == Init /\ [][Next]_vars

\* A draw of one given cell.
DrawCell(rx, ry) == InitializeFoodDraw /\ random_x' = rx /\ random_y' = ry

\* The loop of initialize_food keeps running, and the generator is fair:
\* a cell that can be drawn again and again is drawn.
FairSpec ==
    /\ Spec
    /\ WF_vars(InitializeFoodTest)
    /\ \A rx \in -(MaxFieldSize \div 2)..(MaxFieldSize \div 2) :
       \A ry \in -(MaxFieldSize \div 2)..(MaxFieldSize \div 2) :
          SF_vars(DrawCell(rx, ry))

(***************************************************************************)
(* Vocabulary of the properties                                            *)
(***************************************************************************)
\* The step of a frame in which snake_movement_system runs (a tick).
MoveStep ==
    "snake_movement_system" \notin ran /\ "snake_movement_system" \in ran'

\* The step of a frame in which render_system runs.
RenderStep == "render_system" \notin ran /\ "render_system" \in ran'

\* render_system has run at least once.
Rendered == frame >= 2 \/ "render_system" \in ran

\* The geometric opposites: Up/Down and Left/Right.
IsOpposite(a, b) ==
    {a, b} = {"KeyW", "KeyS"} \/ {a, b} = {"KeyA", "KeyD"}

\* The last key of a press sequence that is legal against the baseline d.
LastLegal(d, keys) ==
    LET legal == {i \in DOMAIN keys : ~IsOpposite(d, keys[i])}
    IN  IF legal = {}
        THEN d
        ELSE keys[CHOOSE i \in legal : \A j \in legal : j <= i]

\* The direction update applied to each event of a sequence in turn.
RECURSIVE ApplyInOrder(_, _)
ApplyInOrder(d, keys) ==
    IF keys = <<>>
    THEN d
    ELSE ApplyInOrder(IF IsOpposite(d, Head(keys)) THEN d ELSE Head(keys),
                      Tail(keys))

\* The head one unit step from h in direction d.
StepFrom(h, d) ==
    [x |-> h.x + (IF d = "KeyD" THEN 1 ELSE IF d = "KeyA" THEN -1 ELSE 0),
     y |-> h.y + (IF d = "KeyW" THEN 1 ELSE IF d = "KeyS" THEN -1 ELSE 0)]

(***************************************************************************)
(* Properties                                                              *)
(***************************************************************************)
\* C1: within one tick every request is checked against the direction the
\* snake had before the tick: the direction after the tick is the last
\* pressed key that is not the opposite of the pre-tick direction, or the
\* pre-tick direction if there is none.
C1_PreTickBaseline ==
    [][MoveStep => snake'.direction = LastLegal(snake.direction, pressed)]_vars

\* C2: direction_check(current, requested) is false exactly when requested
\* is the geometric opposite of current, for the current direction of every
\* reachable state (the initial Comma included) and every requested key.
C2_DirectionCheck ==
    \A requested \in KeyCodes :
        direction_check(snake.direction, requested)
            = ~IsOpposite(snake.direction, requested)

C2_Witness ==
    /\ snake.direction = "KeyD"
    /\ ~direction_check(snake.direction, "KeyA")
    /\ direction_check(snake.direction, "KeyD")

\* C3 as stated: a tick that advances in direction Up, Down, Left or Right
\* puts the new head one cell further and leaves the previous head at index
\* 1 of the body (the second element of the sequence).
C3_PreviousHeadAtIndexOne ==
    [][(MoveStep /\ snake'.direction \in MoveKeys) =>
          /\ snake'.position[1] = StepFrom(snake.position[1], snake'.direction)
          /\ Len(snake'.position) >= 2
          /\ snake'.position[2] = snake.position[1]]_vars

\* C3 as amended: the new head is one cell further in the direction; the
\* previous head is at index 1 after the step exactly when the target
\* length is at least 2, and with target length 1 the body after the step
\* is the new head alone.
C3_NewHead ==
    [][(MoveStep /\ snake'.direction \in MoveKeys) =>
          /\ snake'.position[1] = StepFrom(snake.position[1], snake'.direction)
          /\ snake'.position[1] # snake.position[1]
          /\ IF snake.length >= 2
             THEN snake'.position[2] = snake.position[1]
             ELSE snake'.position = <<StepFrom(snake.position[1], snake'.direction)>>]_vars

C3_Witness ==
    /\ "snake_movement_system" \in ran
    /\ snake.direction = "KeyA"
    /\ snake.position = <<Position(-1, 1)>>

\* C4: after every tick the body has at least one cell and at most
\* target-length cells, and a tick that starts with the body at the target
\* length leaves the body length unchanged.
C4_BodyLength ==
    /\ [](Len(snake.position) >= 1 /\ Len(snake.position) <= snake.length)
    /\ [][(MoveStep /\ Len(snake.position) = snake.length) =>
             Len(snake'.position) = Len(snake.position)]_vars

C4_Witness ==
    /\ frame = MaxFrames
    /\ "snake_movement_system" \in ran
    /\ snake.position[1] = Position(0, 3)
    /\ Len(snake.position) = snake.length

\* C5: every food cell spawned has both coordinates in
\* [-(field_size/2), field_size/2] and is not (0,0).
C5_FoodInRange ==
    \A f \in food :
        /\ -(field.size \div 2) <= f.position.x
        /\ f.position.x <= field.size \div 2
        /\ -(field.size \div 2) <= f.position.y
        /\ f.position.y <= field.size \div 2
        /\ ~(f.position.x = 0 /\ f.position.y = 0)

C5_Witness ==
    /\ field.size = 3
    /\ \E f \in food : f.position.x = 1 /\ f.position.y = 0

\* C6: for every positive field_size, 1 included, the placement loop
\* eventually ends with a food cell spawned (under fair draws).
C6_FoodEventuallySpawned == <>(food # {})

\* C7 as stated: the direction after a tick is the one obtained by applying
\* the direction update to the events in the order they were pressed.
C7_DeliveredOrder ==
    [][MoveStep => snake'.direction = ApplyInOrder(snake.direction, pressed)]_vars

\* C7 as amended: the direction after a tick is the one obtained by applying
\* the direction update once to each key pressed in the frame, in the fixed
\* order W, S, A, D whatever the order of the presses, and the single
\* advance of the tick uses that direction.
C7_FixedOrder ==
    [][MoveStep =>
          LET Pressed(k) == \E i \in DOMAIN pressed : pressed[i] = k
              fixed == SelectSeq(<<"KeyW", "KeyS", "KeyA", "KeyD">>, Pressed)
          IN  /\ snake'.direction = ApplyInOrder(snake.direction, fixed)
              /\ snake'.position[1]
                    = StepFrom(snake.position[1], snake'.direction)]_vars

C7_Witness ==
    /\ "snake_movement_system" \in ran
    /\ pressed = <<"KeyD", "KeyW">>
    /\ frame = 1
    /\ snake.direction = "KeyD"

\* C8: in every tick render runs after the advance, so at the end of a
\* frame the displayed string is the rendering of the body after that
\* frame's advance.
C8_RenderAfterAdvance ==
    (pc = "input" /\ frame >= 1) => text = Render(snake, food)

\* C9: the rendered string is field_size lines, each of field_size
\* characters followed by one newline.
C9_RenderShape ==
    Rendered =>
        /\ Len(text) = field.size * (field.size + 1)
        /\ \A i \in DOMAIN text :
              (text[i] = "\n") <=> (i % (field.size + 1) = 0)

C9_Witness ==
    /\ Rendered
    /\ field.size = 3
    /\ Len(text) = 12

\* The glyph of grid cell (gx, gy): food over snake over blank.
Glyph(gx, gy) ==
    IF \E f \in food : f.position = Position(gx, gy)
    THEN "*"
    ELSE IF \E i \in DOMAIN snake.position : snake.position[i] = Position(gx, gy)
         THEN "~"
         ELSE " "

\* C10: the character at line r, column c of the string render_system
\* writes is the glyph of cell (c - half, (field_size - 1 - r) - half);
\* body cells that project outside [0, field_size) change no character.
C10_RenderContent ==
    [][RenderStep =>
          \A r \in 0..(field.size - 1) : \A c \in 0..(field.size - 1) :
              text'[r * (field.size + 1) + c + 1]
                  = Glyph(c - field.size \div 2,
                          (field.size - 1 - r) - field.size \div 2)]_vars

C10_Witness ==
    /\ ran = {"render_system"}
    /\ snake.position[1].x + field.size \div 2 < 0
    /\ \A i \in DOMAIN text : text[i] # "~"

CellBehind(h, d) ==
    [x |-> h.x - (IF d = "KeyD" THEN 1 ELSE IF d = "KeyA" THEN -1 ELSE 0),
     y |-> h.y - (IF d = "KeyW" THEN 1 ELSE IF d = "KeyS" THEN -1 ELSE 0)]

\* C12: of two consecutive ticks that move the head, the second is never
\* the reverse of the first, whatever keys are pressed: the head never
\* steps back onto the cell it left in the previous tick.  (The direction
\* before a tick is the direction of the previous move.)
C12_NoReversal ==
    [][(MoveStep /\ snake.direction \in MoveKeys) =>
          /\ ~IsOpposite(snake.direction, snake'.direction)
          /\ snake'.position[1] # CellBehind(snake.position[1], snake.direction)]_vars

\* C13: while the direction is the initial Comma, a tick without input
\* leaves the body (and the direction) as it was, and a tick with a single
\* movement key pressed takes that key as the direction.
C13_Sentinel ==
    [][(MoveStep /\ snake.direction = "Comma") =>
          /\ pressed = <<>> =>
                /\ snake'.position = snake.position
                /\ snake'.direction = "Comma"
          /\ Len(pressed) = 1 => snake'.direction = pressed[1]]_vars

C13_Witness ==
    /\ "snake_movement_system" \in ran
    /\ frame = 2
    /\ pressed = <<>>
    /\ snake.direction = "Comma"
    /\ snake.position = <<Position(0, 0)>>

\* C14: once the food is spawned, no step respawns or removes it and no
\* step changes the target length, which stays the 1 of startup; this
\* includes the tick in which the head lands on the food cell and the
\* ticks after it.
C14_StaticFoodAndLength ==
    /\ [](/\ snake.length = 1
          /\ pc \in {"input", "systems"} => Cardinality(food) = 1)
    /\ [][(pc \in {"input", "systems"}) =>
             (food' = food /\ snake'.length = snake.length)]_vars

C14_Witness ==
    /\ "snake_movement_system" \in ran
    /\ frame >= 2
    /\ snake.direction \in MoveKeys
    /\ snake.length = 1
    /\ \E f \in food : f.position = snake.position[1]

\* A cell whose projection lies in the grid on both axes.
InGrid(pos) ==
    /\ 0 <= pos.x + field.size \div 2
    /\ pos.x + field.size \div 2 < field.size
    /\ 0 <= pos.y + field.size \div 2
    /\ pos.y + field.size \div 2 < field.size

\* The place of an in-grid cell in the rendered string (from 1).
TextIndex(pos) ==
    (field.size - 1 - (pos.y + field.size \div 2)) * (field.size + 1)
        + (pos.x + field.size \div 2) + 1

\* C15: when the food cell is a cell of the body and lies inside the grid,
\* the string render_system writes has '*' at that cell.
C15_FoodOverSnake ==
    [][RenderStep =>
          \A f \in food :
              (/\ \E i \in DOMAIN snake.position : snake.position[i] = f.position
               /\ InGrid(f.position))
                  => text'[TextIndex(f.position)] = "*"]_vars

C15_Witness ==
    /\ ran = {"render_system"}
    /\ \E f \in food :
          /\ f.position = snake.position[1]
          /\ InGrid(f.position)
          /\ text[TextIndex(f.position)] = "*"

\* C16: every food cell spawned lies inside the rendered grid, so every
\* rendered string holds the food glyph exactly once.
C16_FoodVisible ==
    /\ \A f \in food : InGrid(f.position)
    /\ Rendered => Cardinality({i \in DOMAIN text : text[i] = "*"}) = 1

\* C17: once the direction is one of the four movement keys it stays one of
\* them, and every tick that ends with such a direction moves the head by
\* exactly one cell along exactly one axis.
C17_NeverStopsAgain ==
    /\ [][(snake.direction \in MoveKeys) => (snake'.direction \in MoveKeys)]_vars
    /\ [][(MoveStep /\ snake'.direction \in MoveKeys) =>
             LET dx == snake'.position[1].x - snake.position[1].x
                 dy == snake'.position[1].y - snake.position[1].y
             IN  (dx \in {-1, 1} /\ dy = 0) \/ (dx = 0 /\ dy \in {-1, 1})]_vars

C17_Witness ==
    /\ "snake_movement_system" \in ran
    /\ frame = 3
    /\ pressed = <<>>
    /\ snake.direction = "KeyD"
    /\ snake.position[1] = Position(3, 0)

\* C18: the advance is never refused and never clamps the head, wherever
\* the head is; and when every body cell projects outside the grid, the
\* string render_system writes holds no snake glyph.
C18_LeavesField ==
    /\ []((pc = "systems" /\ "snake_movement_system" \notin ran)
             => ENABLED SnakeMovementSystem)
    /\ [][MoveStep =>
             snake'.position[1]
                 = StepFrom(snake.position[1], snake'.direction)]_vars
    /\ [][(RenderStep
             /\ \A i \in DOMAIN snake.position : ~InGrid(snake.position[i]))
             => \A j \in DOMAIN text' : text'[j] # "~"]_vars

C18_Witness ==
    /\ ran = {"render_system"}
    /\ snake.position[1].x + field.size \div 2 >= field.size
    /\ \A j \in DOMAIN text : text[j] # "~"

====
